---- MODULE Spec2Model ----
(***************************************************************************)
(* Model of app.py of the Nimbus Nexus EC2 onboarding portal: the users    *)
(* table in the SQLite file, init_db / ensure_columns, load_user, the      *)
(* login, complete_profile and dashboard request handlers, and the two     *)
(* probes of the dashboard, get_limerick_stats and                         *)
(* fetch_instance_metadata.  Every request handler runs on its own         *)
(* connection, made by get_db and closed by the teardown handler;          *)
(* statements of different requests interleave, a write statement takes    *)
(* the database write lock and holds it until db.commit().                 *)
(***************************************************************************)
EXTENDS Integers, Sequences, FiniteSets, TLC

\* ---------------------------------------------------------------- bounds
MaxRequests == 2   \* requests served after start-up
MaxClock == 1      \* last value of the UTC clock
MaxOpens == 2      \* runs of init_db against one database file

\* ------------------------------------------------------- values and text
Reqs == {1, 2}                       \* handler threads serving requests

NULL == <<"<null>">>                 \* SQL NULL
None == [none |-> TRUE]              \* Python None

Whitespace == {" "}

Range(s) == {s[i] : i \in DOMAIN s}

\* str.strip(): drops leading and trailing whitespace, keeps inner one
RECURSIVE LStrip(_)
LStrip(s) == IF s # <<>> /\ Head(s) \in Whitespace THEN LStrip(Tail(s)) ELSE s

RECURSIVE RStrip(_)
RStrip(s) ==
    IF s # <<>> /\ s[Len(s)] \in Whitespace
    THEN RStrip(SubSeq(s, 1, Len(s) - 1))
    ELSE s

Strip(s) == RStrip(LStrip(s))

\* SQLite LOWER(): folds ASCII letters only
LowerChar(c) == IF c = "A" THEN "a" ELSE IF c = "B" THEN "b" ELSE c
Lower(s) == [i \in DOMAIN s |-> LowerChar(s[i])]

\* the letter e-acute, outside ASCII
EAcute == "e'"

\* datetime.isoformat() of the clock reading
IsoFormat(n) == <<"T", n>>

\* werkzeug: salted one-way hash and its verifier
Salts == {"s1"}
Digest(salt, password) == <<"digest", salt, password>>
GeneratePasswordHash(password, salt) == <<"pbkdf2", salt, Digest(salt, password)>>
CheckPasswordHash_unsalted(pwhash, password) == pwhash[3] = Digest("", password)
CheckPasswordHash_method(pwhash, password) == pwhash[1] = "pbkdf2"
CheckPasswordHash(pwhash, password) == pwhash[3] = Digest(pwhash[2], password)

\* ------------------------------------------------------------ the schema
BaseColumns == <<"id", "username", "password", "first_name", "last_name", "email">>
Alterations == <<"job_title", "favorite_service", "region", "bio", "last_login">>
CreateColumns == <<"id", "username", "password", "first_name", "last_name", "email",
                   "job_title", "favorite_service", "region", "bio", "last_login">>
ProfileFields == <<"first_name", "last_name", "email", "job_title",
                   "favorite_service", "region", "bio">>

NoTable == [cols |-> <<>>, exists |-> FALSE, rows |-> <<>>]

\* CREATE TABLE IF NOT EXISTS users (...)
CreateTable_recreate(t) == [cols |-> CreateColumns, exists |-> TRUE, rows |-> <<>>]
CreateTable(t) ==
    IF t.exists THEN t
    ELSE [cols |-> CreateColumns, exists |-> TRUE, rows |-> <<>>]

\* PRAGMA table_info(users): the set of column names
TableInfo(t) == Range(t.cols)

\* ALTER TABLE users ADD COLUMN c TEXT: existing rows read NULL in c
AddColumn(t, c) ==
    [t EXCEPT !.cols = Append(@, c),
              !.rows = [i \in DOMAIN @ |->
                          [x \in DOMAIN @[i] \cup {c} |->
                              IF x = c THEN NULL ELSE @[i][x]]]]

\* the loop of ensure_columns from alteration k on; `existing` is read once
EnsureFrom_first(t, existing, k) ==
    LET missing == {j \in k..Len(Alterations) : Alterations[j] \notin existing}
    IN IF missing = {} THEN t
       ELSE AddColumn(t, Alterations[CHOOSE j \in missing : \A i \in missing : j <= i])
RECURSIVE EnsureFrom(_, _, _)
EnsureFrom(t, existing, k) ==
    IF k > Len(Alterations) THEN t
    ELSE IF Alterations[k] \in existing THEN EnsureFrom(t, existing, k + 1)
    ELSE EnsureFrom(AddColumn(t, Alterations[k]), existing, k + 1)

EnsureColumns(t) == EnsureFrom(t, TableInfo(t), 1)

\* init_db(): CREATE TABLE IF NOT EXISTS, ensure_columns, commit
InitDbResult(t) == EnsureColumns(CreateTable(t))

\* ------------------------------------------------------- store operations
\* SELECT * FROM users WHERE LOWER(username) = LOWER(?)  .fetchone()
Matches(row, username) == Lower(row["username"]) = Lower(username)

MatchingIds(t, username) == {i \in DOMAIN t.rows : Matches(t.rows[i], username)}

LoadUser(t, username) ==
    IF MatchingIds(t, username) = {} THEN None
    ELSE t.rows[CHOOSE i \in MatchingIds(t, username) :
                    \A j \in MatchingIds(t, username) : i <= j]

\* AUTOINCREMENT rowid
NextId(t) == Len(t.rows) + 1

\* the UNIQUE constraint on username (BINARY collation)
UniqueViolation(t, username) == \E i \in DOMAIN t.rows : t.rows[i]["username"] = username

\* INSERT INTO users (username, password, last_login) VALUES (?, ?, ?)
InsertUser_only(t, username, pwhash, stamp) ==
    [t EXCEPT !.rows = <<[c \in Range(t.cols) |->
        CASE c = "id" -> NextId(t)
          [] c = "username" -> username
          [] c = "password" -> pwhash
          [] c = "last_login" -> stamp
          [] OTHER -> NULL]>>]
InsertUser(t, username, pwhash, stamp) ==
    [t EXCEPT !.rows = Append(@,
        [c \in Range(t.cols) |->
            CASE c = "id" -> NextId(t)
              [] c = "username" -> username
              [] c = "password" -> pwhash
              [] c = "last_login" -> stamp
              [] OTHER -> NULL])]

\* UPDATE users SET last_login = ? WHERE id = ?
UpdateLastLogin_all(t, stamp, id) ==
    [t EXCEPT !.rows = [i \in DOMAIN @ |-> [@[i] EXCEPT !["last_login"] = stamp]]]
UpdateLastLogin(t, stamp, id) ==
    [t EXCEPT !.rows = [i \in DOMAIN @ |->
        IF @[i]["id"] = id THEN [@[i] EXCEPT !["last_login"] = stamp] ELSE @[i]]]

\* request.form.get(field, "")
FormGet(form, field) == IF field \in DOMAIN form THEN form[field] ELSE <<>>

\* the tuple `updates` of complete_profile, by column
ProfileUpdates(form) == [f \in Range(ProfileFields) |-> Strip(FormGet(form, f))]

\* UPDATE users SET first_name = ?, ..., bio = ? WHERE username = ?
UpdateProfile_merge(t, updates, username) ==
    [t EXCEPT !.rows = [i \in DOMAIN @ |->
        IF @[i]["username"] = username
        THEN [c \in DOMAIN @[i] |->
                IF c \in DOMAIN updates /\ updates[c] # <<>>
                THEN updates[c] ELSE @[i][c]]
        ELSE @[i]]]
UpdateProfile_replace(t, updates, username) ==
    [t EXCEPT !.rows = [i \in DOMAIN @ |->
        IF @[i]["username"] = username
        THEN [c \in DOMAIN @[i] |->
                IF c \in DOMAIN updates THEN updates[c]
                ELSE IF c = "last_login" THEN NULL ELSE @[i][c]]
        ELSE @[i]]]
UpdateProfile(t, updates, username) ==
    [t EXCEPT !.rows = [i \in DOMAIN @ |->
        IF @[i]["username"] = username
        THEN [c \in DOMAIN @[i] |->
                IF c \in DOMAIN updates THEN updates[c] ELSE @[i][c]]
        ELSE @[i]]]

\* ----------------------------------------------------------------- inputs
Passwords == {"p", "q"}
LoginUsernames == {<<"a">>, <<" ", "A">>}
UrlUsernames == {<<"a">>, <<"b">>}

LoginForms ==
    {("password" :> p @@ "username" :> u) : u \in LoginUsernames, p \in Passwords}
      \cup {("password" :> "p")}

ProfileForms ==
    { ("first_name" :> <<"x">> @@ "last_name" :> <<" ">> @@ "bio" :> <<>>),
      ("first_name" :> <<" ", "y">> @@ "last_name" :> <<"z">> @@ "email" :> <<"e">>
         @@ "job_title" :> <<"j">> @@ "favorite_service" :> <<"s">>
         @@ "region" :> <<"r", " ">> @@ "bio" :> <<"h", " ", "i">>) }

\* a row left in the database file by an earlier run
DiskRow(cols, id, username) ==
    [c \in Range(cols) |->
        CASE c = "id" -> id
          [] c = "username" -> username
          [] c = "password" -> GeneratePasswordHash("p", "s1")
          [] c = "first_name" -> <<"o">>
          [] c = "bio" -> <<"g">>
          [] c = "last_login" -> IsoFormat(0)
          [] OTHER -> NULL]

DiskRows(cols) ==
    { <<>>, <<DiskRow(cols, 1, <<"b">>)>>,
      <<DiskRow(cols, 1, <<"b">>), DiskRow(cols, 2, <<"A">>)>> }

\* the columns of a table of an earlier schema version: the base columns and
\* those of the later ones it already had
RECURSIVE Select(_, _)
Select(s, keep) ==
    IF s = <<>> THEN <<>>
    ELSE IF Head(s) \in keep THEN <<Head(s)>> \o Select(Tail(s), keep)
    ELSE Select(Tail(s), keep)

DiskColumns(had) == BaseColumns \o Select(Alterations, had)

DiskTables ==
    {NoTable} \cup
    UNION { { [cols |-> DiskColumns(had), exists |-> TRUE, rows |-> rows] :
                rows \in DiskRows(DiskColumns(had)) } :
            had \in SUBSET Range(Alterations) }

\* the columns CREATE TABLE declares NOT NULL or as the key, and the others
RequiredColumns == <<"id", "username", "password">>
OptionalColumns == <<"first_name", "last_name", "email", "job_title",
                     "favorite_service", "region", "bio", "last_login">>

\* a users table of any earlier layout: the required columns and some of the
\* optional ones
OldColumns(had) == RequiredColumns \o Select(OptionalColumns, had)

OldTables ==
    UNION { { [cols |-> OldColumns(had), exists |-> TRUE, rows |-> rows] :
                rows \in DiskRows(OldColumns(had)) } :
            had \in SUBSET Range(OptionalColumns) }

LegacyTable ==
    [cols |-> BaseColumns, exists |-> TRUE,
     rows |-> <<DiskRow(BaseColumns, 1, <<"b">>)>>]

\* the file of an earlier run: the migrated row of LegacyTable and the rows of
\* two registrations after the migration
UsedTable ==
    [cols |-> CreateColumns, exists |-> TRUE,
     rows |-> <<InitDbResult(LegacyTable).rows[1], DiskRow(CreateColumns, 2, <<"A">>),
                DiskRow(CreateColumns, 3, <<EAcute>>)>>]

\* the database files the application is started on
StartTables == {NoTable, UsedTable}

\* ------------------------------------------------------- login decision
\* the branch of login() taken for the looked-up user and the typed password
LoginOutcome(user, password) ==
    IF user = None THEN "registered"
    ELSE IF CheckPasswordHash(user["password"], password) THEN "authenticated"
    ELSE "rejected"

\* flash(...) of each branch
LoginFlash(outcome) ==
    CASE outcome = "registered" -> "Welcome aboard! Let's tailor your cloud profile."
      [] outcome = "authenticated" -> "Logged in successfully."
      [] outcome = "rejected" -> "Incorrect password. Try again."
      [] OTHER -> ""

\* a response; the record constructors of this module list their fields in the
\* order TLC keeps them in, which its workers rely on for shared values
\* context: what a dashboard request got from its probes, <<>> elsewhere
NoResult == [username |-> NULL, outcome |-> "none", flash |-> "", status |-> 0,
             context |-> <<>>]
Result(outcome, status, username, flash) ==
    [username |-> username, outcome |-> outcome, flash |-> flash, status |-> status,
     context |-> <<>>]

\* abort(404)
NotFound == Result("not_found", 404, NULL, "")

\* if user is None: abort(404)
AbortIfNone_skip(user, result) == result
AbortIfNone(user, result) == IF user = None THEN NotFound ELSE result

\* ---------------------------------------------------- enrichment probes
\* a Python dict as the sequence of its <<key, value>> items in insertion order
Keys(d) == {d[i][1] : i \in DOMAIN d}
Get_typo(d, key) == ""
Get(d, key) ==
    IF key \in Keys(d) THEN (d[CHOOSE i \in DOMAIN d : d[i][1] = key])[2] ELSE None
Put(d, key, value) ==
    IF key \in Keys(d)
    THEN [i \in DOMAIN d |-> IF d[i][1] = key THEN <<key, value>> ELSE d[i]]
    ELSE Append(d, <<key, value>>)

\* METADATA_FIELDS.items(): <<label, path>> in the order of the literal
METADATA_FIELDS ==
    << <<"Instance ID", "instance-id">>,
       <<"Instance Type", "instance-type">>,
       <<"Availability Zone", "placement/availability-zone">>,
       <<"Public IPv4", "public-ipv4">> >>

MetadataAdvisory ==
    "Instance metadata is unavailable. If you are running locally, this is expected."

\* what session.get(...); raise_for_status() does for one path: a 2xx response
\* or one of the requests.RequestException subclasses
FetchOutcomes == {"ok", "Timeout", "ConnectionError", "HTTPError"}

\* the metadata service during one probe: the outcome for the path of each
\* field, in the order of METADATA_FIELDS
Nets == [DOMAIN METADATA_FIELDS -> FetchOutcomes]
SomeNets ==
    { <<"ok", "ok", "ok", "ok">>,
      <<"ok", "ok", "HTTPError", "ok">> }

\* the body the metadata service sends for a path
ResponseText(path) == <<" ", path, " ">>

\* the for loop of fetch_instance_metadata from field k on; run is
\* <<metadata, fetched>>, fetched the log of <<path, outcome>> of each GET sent
RECURSIVE FetchFrom(_, _, _)
FetchFrom(run, net, k) ==
    IF k > Len(METADATA_FIELDS) THEN run
    ELSE IF "error" \in Keys(run[1]) /\ Get(run[1], "error") # "" THEN run
    ELSE LET label == METADATA_FIELDS[k][1]
             path == METADATA_FIELDS[k][2]
         IN IF net[k] = "ok"
            THEN FetchFrom(<<Put(run[1], label, Strip(ResponseText(path))),
                             Append(run[2], <<path, net[k]>>)>>, net, k + 1)
            ELSE FetchFrom(<<Put(run[1], "error", MetadataAdvisory),
                             Append(run[2], <<path, net[k]>>)>>, net, k + 1)

\* fetch_instance_metadata(): <<the dict returned, the log of GETs sent>>
FetchInstanceMetadata_always(enabled, net) == FetchFrom(<< <<>>, <<>> >>, net, 1)
FetchInstanceMetadata(enabled, net) ==
    IF ~enabled THEN << <<>>, <<>> >> ELSE FetchFrom(<< <<>>, <<>> >>, net, 1)

\* str.split(): the number of maximal runs of non-whitespace characters
RECURSIVE WordCount(_)
WordCount(s) ==
    IF s = <<>> THEN 0
    ELSE IF Head(s) \in Whitespace THEN WordCount(Tail(s))
    ELSE IF Len(s) = 1 \/ s[2] \in Whitespace THEN 1 + WordCount(Tail(s))
    ELSE WordCount(Tail(s))

\* the file at DEFAULT_LIMERICK_PATH as one call of get_limerick_stats finds
\* it: <<exists() answers, what read_text does, the text>>
LimerickText == <<"a", " ", " ", "b", "c", " ">>
LimerickFiles ==
    { <<FALSE, "FileNotFoundError", <<>>>>,
      <<TRUE, "ok", LimerickText>>,
      <<TRUE, "ok", <<>>>>,
      <<TRUE, "FileNotFoundError", <<>>>>,
      <<TRUE, "PermissionError", <<>>>>,
      <<TRUE, "UnicodeDecodeError", <<>>>> }

SomeLimerickFiles ==
    { <<TRUE, "ok", LimerickText>>,
      <<TRUE, "FileNotFoundError", <<>>>> }

\* get_limerick_stats(): <<"return", dict>> or <<"raise", exception>>
GetLimerickStats(file) ==
    IF ~file[1] THEN <<"return", << <<"error", "Limerick.txt not found.">> >> >>
    ELSE IF file[2] # "ok" THEN <<"raise", file[2]>>
    ELSE <<"return", << <<"word_count", WordCount(file[3])>>,
                        <<"path", "Limerick.txt">> >> >>

\* url_for(..., username=user["username"]) of the redirects to the dashboard
RedirectUsername_typed(user, typed) == typed
RedirectUsername(user, typed) == user["username"]

\* dashboard() after the lookup: get_limerick_stats(), then
\* fetch_instance_metadata(), then render_template; an exception of a probe
\* ends the request as a 500.  context is <<the result of the limerick probe,
\* that of the metadata probe, the log of GETs sent>>
DashboardResult(enabled, file, net) ==
    IF GetLimerickStats(file)[1] = "raise"
    THEN [Result("server_error", 500, NULL, "") EXCEPT
             !.context = <<GetLimerickStats(file), <<"not_run">>, <<>>>>]
    ELSE [Result("dashboard", 200, NULL, "") EXCEPT
             !.context = <<GetLimerickStats(file),
                           <<"return", FetchInstanceMetadata(enabled, net)[1]>>,
                           FetchInstanceMetadata(enabled, net)[2]>>]

\* flask.g of one request: whether it holds "db", the connections open, and
\* the calls of sqlite3.connect made
NoG == [db |-> FALSE, open |-> 0, connects |-> 0]

\* get_db()
GetDb_fresh(g) == [db |-> TRUE, open |-> g.open + 1, connects |-> g.connects + 1]
GetDb(g) ==
    IF g.db THEN g
    ELSE [db |-> TRUE, open |-> g.open + 1, connects |-> g.connects + 1]

\* close_connection(), the teardown_appcontext handler
CloseConnection(g) ==
    IF g.db THEN [db |-> FALSE, open |-> g.open - 1, connects |-> g.connects]
    ELSE g

\* no write of a request recorded for a value of a row
Unwritten == <<"unwritten">>
UnwrittenProfile == [f \in Range(ProfileFields) |-> Unwritten]

\* ------------------------------------------------------------------ state
VARIABLES
    config,     \* app.config: AWS_METADATA_ENABLED
    table,      \* the committed users table in the database file
    opens,      \* completed runs of init_db on the file
    clock,      \* datetime.utcnow()
    lock,       \* the handler holding the database write lock, or 0
    staged,     \* the lock holder's uncommitted image of the table
    req,        \* per handler: the request in flight, its position and locals
    solo,       \* per handler: no other request ran during the one in flight
    resp,       \* the latest response sent, with the request it answers
    served,     \* requests begun since start-up
    wrote       \* per row: <<the last_login, the profile values>> that the
                \* latest committed request writing them stored

vars == <<config, table, opens, clock, lock, staged, req, solo, resp, served, wrote>>

Idle == [form |-> <<>>, user |-> None, g |-> NoG, kind |-> "none", method |-> "",
         pc |-> "idle", url |-> NULL]

Request(kind, method, pc, url, form, user, g) ==
    [form |-> form, user |-> user, g |-> g, kind |-> kind, method |-> method,
     pc |-> pc, url |-> url]

NoResp == [form |-> <<>>, result |-> NoResult, g |-> NoG, solo |-> FALSE,
           kind |-> "none", method |-> "", url |-> NULL, prev |-> "none"]

\* the database files with both settings of AWS_METADATA_ENABLED
Configs == {[AWS_METADATA_ENABLED |-> b] : b \in BOOLEAN}

NothingWritten(t) == [i \in DOMAIN t.rows |-> <<Unwritten, UnwrittenProfile>>]

InFlight(r) == req[r].pc # "idle"

\* create_app() has run init_db() on the file it found
Init ==
    /\ table \in {InitDbResult(t) : t \in StartTables}
    /\ config \in Configs
    /\ wrote = NothingWritten(table)
    /\ opens = 1
    /\ clock = 0
    /\ lock = 0
    /\ staged = NoTable
    /\ req = [r \in Reqs |-> Idle]
    /\ solo = [r \in Reqs |-> TRUE]
    /\ resp = NoResp
    /\ served = 0

\* the database file as a start of the application may find it
InitOpen ==
    /\ table \in DiskTables
    /\ config = [AWS_METADATA_ENABLED |-> TRUE]
    /\ wrote = NothingWritten(table)
    /\ opens = 0
    /\ clock = 0
    /\ lock = 0
    /\ staged = NoTable
    /\ req = [r \in Reqs |-> Idle]
    /\ solo = [r \in Reqs |-> TRUE]
    /\ resp = NoResp
    /\ served = 0

\* a database file whose users table has any earlier layout
InitSchema ==
    /\ table \in OldTables
    /\ config = [AWS_METADATA_ENABLED |-> TRUE]
    /\ wrote = NothingWritten(table)
    /\ opens = 0
    /\ clock = 0
    /\ lock = 0
    /\ staged = NoTable
    /\ req = [r \in Reqs |-> Idle]
    /\ solo = [r \in Reqs |-> TRUE]
    /\ resp = NoResp
    /\ served = 0

\* ---------------------------------------------------------------- actions
\* init_db(): in create_app at every start, and the init-db command
InitDb ==
    /\ opens < MaxOpens
    /\ lock = 0
    /\ table' = InitDbResult(table)
    /\ opens' = opens + 1
    /\ UNCHANGED <<config, clock, lock, staged, req, solo, resp, served, wrote>>

Tick ==
    /\ clock < MaxClock
    /\ clock' = clock + 1
    /\ UNCHANGED <<config, table, opens, lock, staged, req, solo, resp, served, wrote>>

\* the response to request rq; prev is the outcome of the response before it
\* when that answered the same request and both ran with no other in flight;
\* g is the request's flask.g after the teardown handler
Response(rq, result, alone) ==
    [form |-> rq.form, result |-> result, g |-> CloseConnection(rq.g),
     solo |-> alone, kind |-> rq.kind, method |-> rq.method, url |-> rq.url,
     prev |-> IF /\ alone /\ resp.solo
                 /\ resp.kind = rq.kind /\ resp.method = rq.method
                 /\ resp.url = rq.url /\ resp.form = rq.form
              THEN resp.result.outcome ELSE "none"]

Admit ==
    /\ opens >= 1
    /\ served < MaxRequests
    /\ served' = served + 1

\* a request whose handler returns without a write to the store
Serve(rq, result) ==
    /\ Admit
    /\ \E r \in Reqs : ~InFlight(r)
    /\ resp' = Response(rq, result, \A s \in Reqs : ~InFlight(s))
    /\ solo' = [s \in Reqs |-> ~InFlight(s)]
    /\ UNCHANGED <<config, table, opens, clock, lock, staged, req, wrote>>

\* a request enters its handler on the first free thread; rq is its state
\* after the lookup
Begin(r, rq) ==
    /\ Admit
    /\ ~InFlight(r)
    /\ \A s \in Reqs : s < r => InFlight(s)
    /\ req' = [req EXCEPT ![r] = rq]
    /\ solo' = [s \in Reqs |-> IF s = r THEN \A o \in Reqs \ {r} : ~InFlight(o)
                                ELSE ~InFlight(s)]
    /\ UNCHANGED <<config, table, opens, clock, lock, staged, resp, wrote>>

\* the handler returns; teardown drops its locals and connection
Finish(r, result) ==
    /\ req' = [req EXCEPT ![r] = Idle]
    /\ resp' = Response(req[r], result, solo[r])
    /\ solo' = [solo EXCEPT ![r] = TRUE]

\* db.commit()
Commit(r) ==
    /\ lock = r
    /\ table' = staged
    /\ staged' = NoTable
    /\ lock' = 0

\* GET /
LoginGet ==
    Serve(Request("login", "GET", "idle", NULL, <<>>, None, NoG),
          Result("login_page", 200, NULL, ""))

\* POST / without one of the form fields: request.form[...] raises 400
LoginPostBadRequest(form) ==
    /\ ~("username" \in DOMAIN form /\ "password" \in DOMAIN form)
    /\ Serve(Request("login", "POST", "idle", NULL, form, None, NoG),
             Result("bad_request", 400, NULL, ""))

\* POST /: strip the username, get_db, load_user
LoginPost(r, form) ==
    /\ "username" \in DOMAIN form /\ "password" \in DOMAIN form
    /\ Begin(r, Request("login", "POST", "looked_up", NULL, form,
                        LoadUser(table, Strip(form["username"])),
                        GetDb(GetDb(NoG))))

\* user is None: INSERT; sqlite3.IntegrityError is not caught
LoginInsert(r, salt) ==
    /\ req[r].kind = "login" /\ req[r].pc = "looked_up"
    /\ LoginOutcome(req[r].user, req[r].form["password"]) = "registered"
    /\ lock = 0
    /\ LET username == Strip(req[r].form["username"])
           pwhash == GeneratePasswordHash(req[r].form["password"], salt)
       IN IF UniqueViolation(table, username)
          THEN /\ Finish(r, Result("server_error", 500, NULL, ""))
               /\ UNCHANGED <<lock, staged>>
          ELSE /\ staged' = InsertUser(table, username, pwhash, IsoFormat(clock))
               /\ lock' = r
               /\ req' = [req EXCEPT ![r].pc = "inserted"]
               /\ UNCHANGED <<solo, resp>>
    /\ UNCHANGED <<config, table, opens, clock, served, wrote>>

LoginInsertCommit(r) ==
    /\ req[r].kind = "login" /\ req[r].pc = "inserted"
    /\ Commit(r)
    /\ Finish(r, Result("registered", 302, Strip(req[r].form["username"]),
                        LoginFlash("registered")))
    /\ wrote' = [i \in DOMAIN staged.rows |->
                    IF i \in DOMAIN wrote THEN wrote[i]
                    ELSE <<staged.rows[i]["last_login"], UnwrittenProfile>>]
    /\ UNCHANGED <<config, opens, clock, served>>

\* the password verifies: UPDATE last_login
LoginUpdate(r) ==
    /\ req[r].kind = "login" /\ req[r].pc = "looked_up"
    /\ LoginOutcome(req[r].user, req[r].form["password"]) = "authenticated"
    /\ lock = 0
    /\ staged' = UpdateLastLogin(table, IsoFormat(clock), req[r].user["id"])
    /\ lock' = r
    /\ req' = [req EXCEPT ![r].pc = "updated"]
    /\ UNCHANGED <<config, table, opens, clock, solo, resp, served, wrote>>

LoginUpdateCommit(r) ==
    /\ req[r].kind = "login" /\ req[r].pc = "updated"
    /\ Commit(r)
    /\ Finish(r, Result("authenticated", 302,
                        RedirectUsername(req[r].user, Strip(req[r].form["username"])),
                        LoginFlash("authenticated")))
    /\ wrote' = [i \in DOMAIN wrote |->
                    IF staged.rows[i]["id"] = req[r].user["id"]
                    THEN <<staged.rows[i]["last_login"], wrote[i][2]>>
                    ELSE wrote[i]]
    /\ UNCHANGED <<config, opens, clock, served>>

\* the password does not verify: flash, render the login page again
LoginReject(r) ==
    /\ req[r].kind = "login" /\ req[r].pc = "looked_up"
    /\ LoginOutcome(req[r].user, req[r].form["password"]) = "rejected"
    /\ Finish(r, Result("rejected", 200, NULL, LoginFlash("rejected")))
    /\ UNCHANGED <<config, table, opens, clock, lock, staged, served, wrote>>

\* GET /profile/<username>/complete
ProfileGet(username) ==
    LET user == LoadUser(table, username)
    IN Serve(Request("profile", "GET", "idle", username, <<>>, None, GetDb(NoG)),
             AbortIfNone(user, Result("profile_form", 200, NULL, "")))

\* POST /profile/<username>/complete for a username load_user does not find
ProfilePostNotFound(username, form) ==
    /\ AbortIfNone(LoadUser(table, username), NoResult) = NotFound
    /\ Serve(Request("profile", "POST", "idle", username, form, None, GetDb(NoG)),
             NotFound)

\* POST /profile/<username>/complete: load_user
ProfilePost(r, username, form) ==
    /\ AbortIfNone(LoadUser(table, username), NoResult) # NotFound
    /\ LoadUser(table, username) # None
    /\ Begin(r, Request("profile", "POST", "found", username, form,
                        LoadUser(table, username), GetDb(NoG)))

\* the updates tuple, get_db, UPDATE
ProfileUpdate(r) ==
    /\ req[r].kind = "profile" /\ req[r].pc = "found"
    /\ lock = 0
    /\ staged' = UpdateProfile(table, ProfileUpdates(req[r].form),
                               req[r].user["username"])
    /\ lock' = r
    /\ req' = [req EXCEPT ![r].pc = "updated", ![r].g = GetDb(@)]
    /\ UNCHANGED <<config, table, opens, clock, solo, resp, served, wrote>>

ProfileCommit(r) ==
    /\ req[r].kind = "profile" /\ req[r].pc = "updated"
    /\ Commit(r)
    /\ Finish(r, Result("profile_saved", 302,
                        RedirectUsername(req[r].user, req[r].url),
                        "Profile saved. Time to explore your cloud footprint!"))
    /\ wrote' = [i \in DOMAIN wrote |->
                    IF staged.rows[i]["username"] = req[r].user["username"]
                    THEN <<wrote[i][1], ProfileUpdates(req[r].form)>>
                    ELSE wrote[i]]
    /\ UNCHANGED <<config, opens, clock, served>>

\* GET /dashboard/<username>; file and net are what the probes of this
\* request meet
Dashboard(username, file, net) ==
    LET user == LoadUser(table, username)
    IN Serve(Request("dashboard", "GET", "idle", username, <<>>, None, GetDb(NoG)),
             AbortIfNone(user, DashboardResult(config.AWS_METADATA_ENABLED, file, net)))

Next ==
    \/ Tick
    \/ LoginGet
    \/ \E form \in LoginForms : LoginPostBadRequest(form)
    \/ \E r \in Reqs, form \in LoginForms : LoginPost(r, form)
    \/ \E r \in Reqs, salt \in Salts : LoginInsert(r, salt)
    \/ \E r \in Reqs : LoginInsertCommit(r)
    \/ \E r \in Reqs : LoginUpdate(r)
    \/ \E r \in Reqs : LoginUpdateCommit(r)
    \/ \E r \in Reqs : LoginReject(r)
    \/ \E username \in UrlUsernames : ProfileGet(username)
    \/ \E username \in UrlUsernames, form \in ProfileForms :
          ProfilePostNotFound(username, form)
    \/ \E r \in Reqs, username \in UrlUsernames, form \in ProfileForms :
          ProfilePost(r, username, form)
    \/ \E r \in Reqs : ProfileUpdate(r)
    \/ \E r \in Reqs : ProfileCommit(r)
    \/ \E username \in UrlUsernames, file \in SomeLimerickFiles, net \in SomeNets :
          Dashboard(username, file, net)

Spec == Init /\ [][Next]_vars

\* opening the store, from any database file a start may find
NextOpen == InitDb

SpecOpen == InitOpen /\ [][NextOpen]_vars

\* the dashboard of a used database, with every file and network behaviour
InitProbe ==
    /\ table = InitDbResult(UsedTable)
    /\ config \in Configs
    /\ wrote = NothingWritten(table)
    /\ opens = 1
    /\ clock = 0
    /\ lock = 0
    /\ staged = NoTable
    /\ req = [r \in Reqs |-> Idle]
    /\ solo = [r \in Reqs |-> TRUE]
    /\ resp = NoResp
    /\ served = 0

NextProbe ==
    \E username \in UrlUsernames, file \in LimerickFiles, net \in Nets :
        Dashboard(username, file, net)

SpecProbe == InitProbe /\ [][NextProbe]_vars

\* opening the store on a users table of any earlier layout
SpecSchema == InitSchema /\ [][NextOpen]_vars

TypeOK ==
    /\ opens \in 0..MaxOpens
    /\ clock \in 0..MaxClock
    /\ lock \in Reqs \cup {0}
    /\ served \in 0..MaxRequests
    /\ Len(table.rows) <= MaxRequests + 3

\* ------------------------------------------------------------- properties
SameName(x, y) == Lower(x) = Lower(y)

\* rows of t whose username is `username` up to letter case
Named(t, username) ==
    {i \in DOMAIN t.rows : SameName(t.rows[i]["username"], username)}

\* the password typed in request rq is not the one the hash of rq.user was made of
Mismatch(rq) ==
    /\ rq.user # None
    /\ rq.user["password"] #
          GeneratePasswordHash(rq.form["password"], rq.user["password"][2])

\* handler r returns in this step
Returns(r) == InFlight(r) /\ req'[r] = Idle

\* C1: no two rows of the users table have usernames that are equal once
\* lower-cased.
CaseInsensitiveUnique ==
    \A i, j \in DOMAIN table.rows :
        i # j => ~SameName(table.rows[i]["username"], table.rows[j]["username"])

\* C2: a login that saw no record for its username and finds, when it
\* inserts, that a concurrent login has created that username does not end
\* as a server error, and the table holds exactly one row of that username.
DuplicateHandled ==
    [][\A r \in Reqs :
         ( /\ Returns(r)
           /\ req[r].kind = "login"
           /\ req[r].user = None
           /\ UniqueViolation(table, Strip(req[r].form["username"])) )
         => /\ resp'.result.status # 500
            /\ resp'.result.outcome = "rejected" \/ resp'.result.outcome = "authenticated"
            /\ Cardinality({i \in DOMAIN table'.rows :
                              table'.rows[i]["username"] =
                                 Strip(req[r].form["username"])}) = 1]_vars

\* C3: of two successive login requests with the same username and password,
\* neither overlapping another request, the first, which finds no matching
\* record, ends registered, the second ends authenticated, and then exactly
\* one row carries that username.
SameTwice ==
    [][\A r \in Reqs :
         ( /\ Returns(r)
           /\ req[r].kind = "login"
           /\ solo[r] )
         => /\ req[r].user = None
               => /\ resp'.result.outcome = "registered"
                  /\ Cardinality(Named(table', Strip(req[r].form["username"]))) = 1
            /\ ( /\ resp.solo
                 /\ resp.kind = "login" /\ resp.method = "POST"
                 /\ resp.form = req[r].form
                 /\ resp.result.outcome = "registered" )
               => /\ resp'.result.outcome = "authenticated"
                  /\ Cardinality(Named(table', Strip(req[r].form["username"]))) = 1]_vars

SameTwiceWitness ==
    /\ resp.kind = "login"
    /\ resp.result.outcome = "authenticated"
    /\ resp.prev = "registered"
    /\ Cardinality(Named(table, Strip(resp.form["username"]))) = 1

\* C4: a login request whose lookup finds a record and whose password does
\* not verify against that record's hash ends rejected, and none of its
\* steps changes the users table.
WrongPasswordRejected ==
    [][\A r \in Reqs :
         /\ ( /\ ~InFlight(r) /\ req'[r].kind = "login" /\ Mismatch(req'[r]) )
            => table' = table
         /\ ( /\ InFlight(r) /\ req[r].kind = "login" /\ Mismatch(req[r])
              /\ req'[r] # req[r] )
            => /\ req'[r] = Idle
               /\ resp'.result.outcome = "rejected"
               /\ table' = table
               /\ staged' = staged]_vars

WrongPasswordRejectedWitness ==
    /\ resp.kind = "login"
    /\ resp.result.outcome = "rejected"
    /\ Named(table, Strip(resp.form["username"])) # {}

\* the table without the rows of `username`
Without(t, username) ==
    [t EXCEPT !.rows = SelectSeq(@, LAMBDA row : ~SameName(row["username"], username))]

\* what the client sees of a login: where it is sent and the message flashed
Observable(user, password) ==
    <<LoginOutcome(user, password), LoginFlash(LoginOutcome(user, password))>>

\* C5: a login for username U with a password that is not U's shows the
\* client the same outcome and message whether or not a record of U exists.
NoUsernameLeak ==
    \A u \in LoginUsernames, p \in Passwords :
        LET present == LoadUser(table, Strip(u))
            absent == LoadUser(Without(table, Strip(u)), Strip(u))
        IN ( /\ present # None
             /\ present["password"] # GeneratePasswordHash(p, present["password"][2]) )
           => Observable(present, p) = Observable(absent, p)

\* C6: every login request ends registered when its lookup found no record,
\* authenticated when it found one and the password verifies, rejected when
\* it found one and the password does not verify; it has no other outcome.
ThreeOutcomes ==
    [][\A r \in Reqs :
         ( Returns(r) /\ req[r].kind = "login" )
         => resp'.result.outcome =
               IF req[r].user = None THEN "registered"
               ELSE IF Mismatch(req[r]) THEN "rejected"
               ELSE "authenticated"]_vars

\* C7: when a profile-completion POST for an existing user returns, each of
\* the seven profile fields of that user's row is the submitted value
\* stripped, or the empty string for a field absent or blank.
ProfileOverwrite ==
    [][\A r \in Reqs :
         ( Returns(r) /\ req[r].kind = "profile" )
         => /\ resp'.result.outcome = "profile_saved"
            /\ \E i \in DOMAIN table'.rows :
                 /\ table'.rows[i]["id"] = req[r].user["id"]
                 /\ \A k \in DOMAIN ProfileFields :
                      table'.rows[i][ProfileFields[k]] =
                         IF ProfileFields[k] \in DOMAIN req[r].form
                         THEN Strip(req[r].form[ProfileFields[k]])
                         ELSE <<>>]_vars

ProfileOverwriteWitness ==
    /\ resp.kind = "profile"
    /\ resp.result.outcome = "profile_saved"
    /\ "email" \notin DOMAIN resp.form
    /\ resp.form["last_name"] = <<" ">>
    /\ \E i \in DOMAIN table.rows :
         /\ table.rows[i]["username"] = resp.result.username
         /\ table.rows[i]["first_name"] = <<"x">>
         /\ table.rows[i]["bio"] = <<>>
         /\ table.rows[i]["last_name"] = <<>>
         /\ table.rows[i]["email"] = <<>>

\* the rows of t2 other than `id` are those of t, and row `id` differs from
\* the one of t in the columns `changed` at most
OnlyChanged(t, t2, id, changed) ==
    /\ t2.exists = t.exists
    /\ t2.cols = t.cols
    /\ Len(t2.rows) = Len(t.rows)
    /\ \A i \in DOMAIN t.rows :
         IF t.rows[i]["id"] = id
         THEN /\ DOMAIN t2.rows[i] = DOMAIN t.rows[i]
              /\ \A c \in DOMAIN t.rows[i] \ changed : t2.rows[i][c] = t.rows[i][c]
         ELSE t2.rows[i] = t.rows[i]

\* C8: an authenticated login changes only last_login of the matched row and
\* a profile-completion POST only the seven profile fields of the matched
\* row; every other field and every other row stays as it was, and no
\* earlier step of either request changes the table.
FrameEffect ==
    [][\A r \in Reqs :
         /\ ( req'[r] # req[r] /\ ~Returns(r) ) => table' = table
         /\ ( Returns(r) /\ req[r].kind = "login" /\ req[r].pc = "updated" )
            => /\ resp'.result.outcome = "authenticated"
               /\ OnlyChanged(table, table', req[r].user["id"], {"last_login"})
         /\ ( Returns(r) /\ req[r].kind = "profile" /\ req[r].pc = "updated" )
            => /\ resp'.result.outcome = "profile_saved"
               /\ OnlyChanged(table, table', req[r].user["id"], Range(ProfileFields))]_vars

FrameEffectWitness ==
    /\ resp.kind = "login"
    /\ resp.result.outcome = "authenticated"
    /\ Len(table.rows) >= 2
    /\ \E i, j \in DOMAIN table.rows :
         /\ table.rows[i]["username"] = resp.result.username
         /\ table.rows[i]["last_login"] = IsoFormat(clock)
         /\ table.rows[j]["last_login"] # IsoFormat(clock)

\* C9: a profile-completion request (GET or POST) or a dashboard request for
\* a username no row matches up to letter case is answered 404 and leaves the
\* users table as it was.
UnknownUserNotFound ==
    [][/\ ( /\ served' # served /\ req' = req
            /\ resp'.kind = "profile" \/ resp'.kind = "dashboard"
            /\ Named(table, resp'.url) = {} )
          => /\ resp'.result.outcome = "not_found"
             /\ resp'.result.status = 404
             /\ table' = table
             /\ staged' = staged
       /\ \A r \in Reqs :
            ( served' # served /\ req'[r] # req[r]
              /\ (req'[r].kind = "profile" \/ req'[r].kind = "dashboard") )
            => Named(table, req'[r].url) # {}]_vars

UnknownUserNotFoundWitness ==
    /\ resp.kind = "profile" \/ resp.kind = "dashboard"
    /\ resp.result.outcome = "not_found"
    /\ Named(table, resp.url) = {}
    /\ Len(table.rows) >= 1

\* C10: a run of init_db keeps every row with its values, and a run after an
\* earlier one adds no column and changes nothing in the table.
OpenIdempotent ==
    [][opens' = opens + 1
         => /\ table'.exists
            /\ Len(table'.rows) = Len(table.rows)
            /\ \A i \in DOMAIN table.rows :
                 \A c \in DOMAIN table.rows[i] :
                    /\ c \in DOMAIN table'.rows[i]
                    /\ table'.rows[i][c] = table.rows[i][c]
            /\ opens >= 1 => /\ Len(table'.cols) = Len(table.cols)
                             /\ table' = table]_vars

OpenIdempotentWitness ==
    /\ opens >= 2
    /\ Len(table.rows) = 2
    /\ table.rows[1]["bio"] = NULL
    /\ table.rows[1]["region"] = NULL
    /\ table.rows[2]["first_name"] = <<"o">>

\* C11: a run of init_db on a users table that has first_name, last_name and
\* email and lacks any of job_title, favorite_service, region, bio and
\* last_login leaves a table with every column of the schema, and a run on any
\* users table keeps each earlier column under its name and at its place.
MissingColumnsAdded ==
    [][opens' = opens + 1
         => /\ Range(BaseColumns) \subseteq Range(table.cols)
               => Range(CreateColumns) \subseteq Range(table'.cols)
            /\ Len(table'.cols) >= Len(table.cols)
            /\ \A k \in DOMAIN table.cols : table'.cols[k] = table.cols[k]]_vars

MissingColumnsAddedWitness ==
    /\ opens = 1
    /\ Range(table.cols) = Range(CreateColumns)
    /\ table.cols[Len(table.cols)] = "bio"
    /\ table.cols[7] = "last_login"
    /\ Len(table.rows) = 2
    /\ table.rows[1]["bio"] = NULL
    /\ table.rows[1]["last_login"] = IsoFormat(0)

\* C11 as stated: after a run of init_db on a users table lacking any of the
\* seven profile columns or last_login, all eight exist, and no earlier column
\* was dropped or renamed.
AllOptionalColumnsAdded ==
    [][opens' = opens + 1
         => /\ Range(OptionalColumns) \subseteq Range(table'.cols)
            /\ Len(table'.cols) >= Len(table.cols)
            /\ \A k \in DOMAIN table.cols : table'.cols[k] = table.cols[k]]_vars

\* the dashboard page of the latest response was rendered
Rendered == resp.kind = "dashboard" /\ resp.result.outcome = "dashboard"

\* the GETs the metadata probe of the latest response sent, and what it returned
Fetched == resp.result.context[3]
Metadata == resp.result.context[2][2]

\* the items of the fields whose GET, among the first n, succeeded
RECURSIVE Fetches(_)
Fetches(n) ==
    IF n = 0 THEN <<>>
    ELSE IF Fetched[n][2] = "ok"
         THEN Append(Fetches(n - 1),
                     <<METADATA_FIELDS[n][1], Strip(ResponseText(METADATA_FIELDS[n][2]))>>)
    ELSE Fetches(n - 1)

\* C12: with enrichment enabled, the metadata probe sends its GETs in the
\* order of METADATA_FIELDS, sends none after one that failed, stops early
\* only after a failure, and returns exactly the stripped values of the
\* fields fetched, followed by one advisory entry if a GET failed.
StopAtFirstFailure ==
    ( Rendered /\ config.AWS_METADATA_ENABLED )
    => /\ Len(Fetched) <= Len(METADATA_FIELDS)
       /\ \A i \in DOMAIN Fetched :
            /\ Fetched[i][1] = METADATA_FIELDS[i][2]
            /\ i < Len(Fetched) => Fetched[i][2] = "ok"
       /\ Len(Fetched) >= 1
       /\ Len(Fetched) < Len(METADATA_FIELDS) => Fetched[Len(Fetched)][2] # "ok"
       /\ Metadata =
             IF Fetched[Len(Fetched)][2] = "ok" THEN Fetches(Len(Fetched))
             ELSE Append(Fetches(Len(Fetched)), <<"error", MetadataAdvisory>>)

StopAtFirstFailureWitness ==
    /\ Rendered /\ config.AWS_METADATA_ENABLED
    /\ Len(Fetched) = 3
    /\ Fetched[3] = <<"placement/availability-zone", "Timeout">>
    /\ Len(Metadata) = 3
    /\ Metadata[1] = <<"Instance ID", <<"instance-id">>>>
    /\ Metadata[3][1] = "error"

\* C13: with enrichment disabled, the metadata probe returns the empty
\* mapping and sends no GET.
DisabledProbeSilent ==
    ( Rendered /\ ~config.AWS_METADATA_ENABLED )
    => /\ resp.result.context[2] = <<"return", <<>>>>
       /\ resp.result.context[3] = <<>>

DisabledProbeSilentWitness ==
    /\ Rendered /\ ~config.AWS_METADATA_ENABLED
    /\ resp.result.context[2] = <<"return", <<>>>>
    /\ resp.result.context[1][1] = "return"
    /\ Keys(resp.result.context[1][2]) # {"error"}

\* C14: the dashboard request of an existing user is answered with the
\* rendered page, both probes having returned a mapping, which carries an
\* advisory when the file could not be read or a GET failed.
ProbesNeverRaise ==
    ( resp.kind = "dashboard" /\ Named(table, resp.url) # {} )
    => /\ resp.result.status = 200
       /\ resp.result.context[1][1] = "return"
       /\ resp.result.context[2][1] = "return"

\* C15: at most one connection is made for a request, and none it made is
\* open once its response is sent, whatever the response: redirect, page,
\* 404, or the 500 of an exception of a store operation.
ConnectionsClosed ==
    /\ ~resp.g.db /\ resp.g.open = 0 /\ resp.g.connects <= 1
    /\ \A r \in Reqs :
         /\ req[r].g.connects <= 1
         /\ req[r].g.open <= 1
         /\ ~InFlight(r) => req[r].g.open = 0

ConnectionsClosedWitness ==
    /\ resp.kind = "login"
    /\ resp.result.status = 500
    /\ resp.g.connects = 1
    /\ resp.g.open = 0
    /\ ~resp.g.db

\* the letter E-acute, and upper-casing a name: every cased letter is folded
CapitalEAcute == "E'"
UpperChar(c) ==
    IF c = "a" THEN "A" ELSE IF c = "b" THEN "B"
    ELSE IF c = EAcute THEN CapitalEAcute ELSE c
Upper(s) == [i \in DOMAIN s |-> UpperChar(s[i])]

\* usernames looked up
LookupNames == {<<"a">>, <<"A">>, <<"b">>, <<"a", "b">>, <<EAcute>>, <<CapitalEAcute>>}

\* C16: looking up a username and looking up its upper-cased form return
\* the same row or both none, and a row is not returned for a name that
\* differs from its username by more than letter case.
CaseInsensitiveLookup ==
    \A u \in LookupNames :
        /\ LoadUser(table, u) = LoadUser(table, Upper(u))
        /\ \A i \in DOMAIN table.rows :
             Upper(table.rows[i]["username"]) # Upper(u)
                => LoadUser(table, u) # table.rows[i]

\* C17: when a login request that found no record returns registered,
\* looking its username up returns the row it inserted, with last_login set
\* and the seven profile fields empty.
RegisteredRecordFresh ==
    [][\A r \in Reqs :
         ( Returns(r) /\ req[r].kind = "login" /\ req[r].pc = "inserted" )
         => LET username == Strip(req[r].form["username"])
                user == LoadUser(table', username)
            IN /\ user # None
               /\ user["username"] = username
               /\ user["last_login"] # NULL
               /\ \A k \in DOMAIN ProfileFields :
                    user[ProfileFields[k]] = NULL \/ user[ProfileFields[k]] = <<>>]_vars

\* C18: the username in the redirect of an authenticated login and of a
\* saved profile is the username column of the matched row, also when the
\* name typed in the form or the URL differs from it in letter case.
StoredUsernameCarried ==
    [][\A r \in Reqs :
         ( Returns(r) /\ req[r].pc = "updated" )
         => \E i \in DOMAIN table'.rows :
               /\ table'.rows[i]["id"] = req[r].user["id"]
               /\ Matches(table'.rows[i],
                          IF req[r].kind = "login" THEN Strip(req[r].form["username"])
                          ELSE req[r].url)
               /\ resp'.result.username = table'.rows[i]["username"]]_vars

StoredUsernameCarriedWitness ==
    /\ resp.kind = "login"
    /\ resp.result.outcome = "authenticated"
    /\ Strip(resp.form["username"]) = <<"a">>
    /\ resp.result.username = <<"A">>
    /\ \E i \in DOMAIN table.rows : table.rows[i]["username"] = <<"A">>

\* C19: no step removes a row or changes the id, username or password of
\* one; a step adds at most one row, and only as the commit of a login
\* request whose lookup found no record, under the username it typed.
RecordsOnlyGrow ==
    [][/\ Len(table'.rows) >= Len(table.rows)
       /\ \A i \in DOMAIN table.rows :
            /\ table'.rows[i]["id"] = table.rows[i]["id"]
            /\ table'.rows[i]["username"] = table.rows[i]["username"]
            /\ table'.rows[i]["password"] = table.rows[i]["password"]
       /\ Len(table'.rows) # Len(table.rows)
            => /\ Len(table'.rows) = Len(table.rows) + 1
               /\ \E r \in Reqs :
                    /\ Returns(r)
                    /\ req[r].kind = "login"
                    /\ req[r].user = None
                    /\ resp'.result.outcome = "registered"
                    /\ table'.rows[Len(table'.rows)]["username"] =
                          Strip(req[r].form["username"])]_vars

RecordsOnlyGrowWitness ==
    /\ Len(table.rows) = 2
    /\ table.rows[1]["username"] = <<"a">>
    /\ table.rows[2]["username"] = <<"A">>
    /\ table.rows[1]["password"] = GeneratePasswordHash("q", "s1")
    /\ resp.result.outcome = "registered"

\* C20: in every interleaving of the steps of logins and profile
\* submissions, each row holds the last_login that the latest committed
\* login of its user wrote and the seven profile values that the latest
\* committed profile submission for it wrote: neither update undoes the other.
NoLostUpdate ==
    \A i \in DOMAIN wrote :
        /\ i \in DOMAIN table.rows
        /\ wrote[i][1] # Unwritten => table.rows[i]["last_login"] = wrote[i][1]
        /\ \A k \in DOMAIN ProfileFields :
             wrote[i][2][ProfileFields[k]] # Unwritten
                => table.rows[i][ProfileFields[k]] = wrote[i][2][ProfileFields[k]]

\* a login and a profile submission for the stored user A, the only two
\* requests served, ran concurrently and both committed
NoLostUpdateWitness ==
    /\ served = 2
    /\ ~resp.solo
    /\ \A r \in Reqs : ~InFlight(r)
    /\ \E i \in DOMAIN wrote :
         /\ table.rows[i]["username"] = <<"A">>
         /\ wrote[i][1] = IsoFormat(1)
         /\ wrote[i][2]["first_name"] = <<"y">>
         /\ table.rows[i]["last_login"] = IsoFormat(1)
         /\ table.rows[i]["first_name"] = <<"y">>
         /\ table.rows[i]["bio"] = <<"h", " ", "i">>

====
